---- MODULE Spec2Model ----
(***************************************************************************)
(* Key namespacing over a flat key-value store (cosmwasm-storage).         *)
(*                                                                         *)
(* PrefixedStorage (packages/storage/src/prefixed_storage.rs) wraps any    *)
(* Storage and rewrites every key with a precomputed prefix.  The codec    *)
(* (length_prefixed), the helpers (namespace_helpers) and the wrapped      *)
(* MemoryStorage are collaborators of the view; they are modelled from     *)
(* their written contract.                                                 *)
(*                                                                         *)
(* Byte strings are sequences over 0..255.  Option<T> is a sequence of     *)
(* length 0 (None) or 1 (Some).  A storage handle is <<>> for the          *)
(* underlying store itself and <<v>> for a PrefixedStorage v, so that a    *)
(* view can wrap the store or another view ("S: Storage").                 *)
(***************************************************************************)
EXTENDS Integers, Sequences, FiniteSets, TLC

VARIABLES store, view, ctor, pc, last, before, twin, twinView, twinLast

vars == <<store, view, ctor, pc, last, before, twin, twinView, twinLast>>

----------------------------------------------------------------------------
(* Values of the Rust types *)

None == <<>>
Some(x) == <<x>>

\* The value an operation that panicked leaves where a byte string was due.
Panic == <<-1>>

\* A run of n equal bytes.
Repeat(b, n) == [i \in 1..n |-> b] \o <<>>

\* The first index in lo..hi where a and b differ, one being known to exist.
RECURSIVE FirstDiff(_, _, _, _)
FirstDiff(a, b, lo, hi) ==
    IF lo = hi THEN lo
    ELSE LET mid == (lo + hi) \div 2
         IN  IF SubSeq(a, lo, mid) = SubSeq(b, lo, mid)
             THEN FirstDiff(a, b, mid + 1, hi)
             ELSE FirstDiff(a, b, lo, mid)

\* Vec<u8> ordering: byte-wise lexicographic, a proper prefix sorts first.
LexLess(a, b) ==
    LET m == IF Len(a) < Len(b) THEN Len(a) ELSE Len(b)
    IN  IF SubSeq(a, 1, m) = SubSeq(b, 1, m) THEN Len(a) < Len(b)
        ELSE LET i == FirstDiff(a, b, 1, m) IN a[i] < b[i]

LexLeq(a, b) == a = b \/ LexLess(a, b)

\* Every byte of s is b (a shifted copy of s equals s).
AllBytes(s, b) ==
    \/ s = <<>>
    \/ /\ s[1] = b
       /\ SubSeq(s, 1, Len(s) - 1) = SubSeq(s, 2, Len(s))

IsPrefixOf(p, k) == Len(p) <= Len(k) /\ SubSeq(k, 1, Len(p)) = p

RECURSIVE SortAscending(_)
SortAscending(keys) ==
    IF keys = {} THEN <<>>
    ELSE LET lo == CHOOSE k \in keys : \A o \in keys : LexLeq(k, o)
         IN  <<lo>> \o SortAscending(keys \ {lo})

Reverse(s) == [i \in 1..Len(s) |-> s[Len(s) + 1 - i]]

----------------------------------------------------------------------------
(* The underlying store: get / set / remove / range over physical keys *)

Mem_get(mem, key) == IF key \in DOMAIN mem THEN Some(mem[key]) ELSE None

Mem_set(mem, key, value) ==
    [k \in (DOMAIN mem) \cup {key} |-> IF k = key THEN value ELSE mem[k]]

Mem_remove(mem, key) == [k \in (DOMAIN mem) \ {key} |-> mem[k]]

\* Half-open [start, end); an absent bound is unbounded on that side.
Mem_range(mem, start, end, order) ==
    LET hit == {k \in DOMAIN mem :
                    /\ (start = None \/ LexLeq(start[1], k))
                    /\ (end = None \/ LexLess(k, end[1]))}
        asc == SortAscending(hit)
        kv  == [i \in 1..Len(asc) |-> <<asc[i], mem[asc[i]]>>]
    IN  IF order = "Ascending" THEN kv ELSE Reverse(kv)

----------------------------------------------------------------------------
(* length_prefixed: the codec *)

MaxSegmentLen == 65535

\* 2-byte big-endian length header; a longer segment is a fatal error.
encode_length(namespace) ==
    IF Len(namespace) > MaxSegmentLen THEN Panic
    ELSE <<Len(namespace) \div 256, Len(namespace) % 256>>

to_length_prefixed(namespace) ==
    IF encode_length(namespace) = Panic THEN Panic
    ELSE encode_length(namespace) \o namespace

RECURSIVE to_length_prefixed_nested(_)
to_length_prefixed_nested(namespaces) ==
    IF namespaces = <<>> THEN <<>>
    ELSE LET head == to_length_prefixed(Head(namespaces))
             rest == to_length_prefixed_nested(Tail(namespaces))
         IN  IF head = Panic \/ rest = Panic THEN Panic ELSE head \o rest

----------------------------------------------------------------------------
(* namespace_helpers *)

concat(namespace, key) == namespace \o key

\* Strips the prefix length; a key shorter than the prefix is fatal.
trim(namespace, key) ==
    IF Len(key) < Len(namespace) THEN Panic
    ELSE SubSeq(key, Len(namespace) + 1, Len(key))

\* Upper bound of the keys that begin with the prefix: the trailing 0xFF
\* bytes are dropped and the byte before them is incremented; an all-0xFF
\* prefix has no upper bound and the scan runs to the end of the store.
namespace_upper_bound(input) ==
    IF AllBytes(input, 255) THEN None
    ELSE LET low == {i \in 1..Len(input) : input[i] # 255}
             i == CHOOSE x \in low : \A y \in low : y <= x
         IN  Some([j \in 1..i |-> IF j = i THEN input[j] + 1 ELSE input[j]])

RECURSIVE Storage_get(_, _, _)
RECURSIVE Storage_set(_, _, _, _)
RECURSIVE Storage_remove(_, _, _)
RECURSIVE Storage_range(_, _, _, _, _)

get_with_prefix(storage, mem, namespace, key) ==
    Storage_get(storage, mem, concat(namespace, key))

set_with_prefix(storage, mem, namespace, key, value) ==
    Storage_set(storage, mem, concat(namespace, key), value)

remove_with_prefix(storage, mem, namespace, key) ==
    Storage_remove(storage, mem, concat(namespace, key))

\* The keys the wrapped storage hands back for the translated bounds.
scan_with_prefix(storage, mem, namespace, start, end, order) ==
    LET s == IF start = None THEN Some(namespace)
             ELSE Some(concat(namespace, start[1]))
        e == IF end = None THEN namespace_upper_bound(namespace)
             ELSE Some(concat(namespace, end[1]))
    IN  Storage_range(storage, mem, s, e, order)

range_with_prefix(storage, mem, namespace, start, end, order) ==
    LET base == scan_with_prefix(storage, mem, namespace, start, end, order)
    IN  [i \in 1..Len(base) |-> <<trim(namespace, base[i][1]), base[i][2]>>]

----------------------------------------------------------------------------
(* PrefixedStorage *)

Base == <<>>

\* new that cuts the namespace to what the length header can express.
new_truncating(storage, namespace) ==
    LET n == Len(namespace) % (MaxSegmentLen + 1)
    IN  [storage |-> storage,
         prefix |-> <<n \div 256, n % 256>> \o SubSeq(namespace, 1, n)]

\* new with the bare namespace as the prefix.
new_bare(storage, namespace) ==
    [storage |-> storage, prefix |-> namespace]

new(storage, namespace) ==
    [storage |-> storage, prefix |-> to_length_prefixed(namespace)]

RECURSIVE Joined(_)
Joined(namespaces) ==
    IF namespaces = <<>> THEN <<>>
    ELSE Head(namespaces) \o Joined(Tail(namespaces))

\* multilevel that encodes the joined namespaces as one segment.
multilevel_flat(storage, namespaces) ==
    [storage |-> storage, prefix |-> to_length_prefixed(Joined(namespaces))]

multilevel(storage, namespaces) ==
    [storage |-> storage, prefix |-> to_length_prefixed_nested(namespaces)]

\* get that forgets the prefix.
get_unprefixed(self, mem, key) == Storage_get(self.storage, mem, key)

get(self, mem, key) == get_with_prefix(self.storage, mem, self.prefix, key)

\* range that does not forward the start bound.
range_from_first(self, mem, start, end, order) ==
    range_with_prefix(self.storage, mem, self.prefix, None, end, order)

\* range that does not forward the order.
range_forward(self, mem, start, end, order) ==
    range_with_prefix(self.storage, mem, self.prefix, start, end, "Ascending")

\* range that takes the bare prefix for the absent upper bound.
range_naive_end(self, mem, start, end, order) ==
    range_with_prefix(self.storage, mem, self.prefix, start,
                      IF end = None THEN Some(<<>>) ELSE end, order)

range(self, mem, start, end, order) ==
    range_with_prefix(self.storage, mem, self.prefix, start, end, order)

\* set that forgets the prefix.
set_unprefixed(self, mem, key, value) ==
    Storage_set(self.storage, mem, key, value)

set(self, mem, key, value) ==
    set_with_prefix(self.storage, mem, self.prefix, key, value)

\* remove that forgets the prefix.
remove_unprefixed(self, mem, key) == Storage_remove(self.storage, mem, key)

remove(self, mem, key) ==
    remove_with_prefix(self.storage, mem, self.prefix, key)

\* "S: Storage": a call on a handle goes to the store or to the view.
Storage_get(storage, mem, key) ==
    IF storage = Base THEN Mem_get(mem, key) ELSE get(storage[1], mem, key)

Storage_set(storage, mem, key, value) ==
    IF storage = Base THEN Mem_set(mem, key, value)
    ELSE set(storage[1], mem, key, value)

Storage_remove(storage, mem, key) ==
    IF storage = Base THEN Mem_remove(mem, key)
    ELSE remove(storage[1], mem, key)

Storage_range(storage, mem, start, end, order) ==
    IF storage = Base THEN Mem_range(mem, start, end, order)
    ELSE range(storage[1], mem, start, end, order)

----------------------------------------------------------------------------
(* Input domains *)

\* Entries the underlying store holds at most.
MaxEntries == 2

\* Namespaces a multilevel view of the codec runs is built from at most.
MaxDepth == 2

\* Entries of the stores the range runs scan at most.
MaxScanned == 3

Values == {<<7>>, <<8>>}

Orders == {"Ascending", "Descending"}

EmptyStore == [k \in {} |-> <<>>]

Idle == [op |-> "none", key |-> <<>>, value |-> <<>>, start |-> None,
         end |-> None, order |-> "Ascending", result |-> <<>>, scan |-> <<>>]

\* How the current view was asked for: the constructor, the length of each
\* namespace handed to it and, unless one is longer than the header can
\* express, the namespaces.
NoCtor == [kind |-> "none", lens |-> <<>>, namespaces |-> <<>>]

Lens(namespaces) == [i \in 1..Len(namespaces) |-> Len(namespaces[i])]

(* The contract run *)

Namespaces == {<<1>>, <<255>>}

NamespaceLists == {<< <<1>> >>, << <<255>> >>, << <<1>>, <<255>> >>}

\* <<0, 1, 255>> is the encoding of namespace <<255>>: through the view of
\* <<1>> it names the same physical key as <<>> through the view of
\* <<1>>, <<255>>.
Keys == {<<>>, <<0>>, <<0, 1, 255>>}

\* A key the contract writes without any view; it sorts right after the
\* keys of namespace <<255>>.
RawKeys == {<<0, 2>>}

Bounds == {None, Some(<<0>>)}

(* The codec runs *)

CodecNamespaces == {<<>>, <<1>>, <<2>>, <<1, 2>>, <<0, 1, 2>>}

\* The longest namespace the header can express, and one byte more.
Longest == Repeat(255, MaxSegmentLen)
Oversize == Repeat(255, MaxSegmentLen + 1)

RECURSIVE ListsOf(_, _)
ListsOf(S, n) ==
    IF n = 0 THEN {<<>>}
    ELSE {<<x>> \o l : x \in S, l \in ListsOf(S, n - 1)}

CodecLists ==
    UNION {ListsOf(CodecNamespaces, n) : n \in 1..MaxDepth}
        \cup {<<Longest>>, <<Oversize>>, <<<<1>>, Oversize>>,
              <<Oversize, <<1>> >>}

(* The range runs *)

RangeNamespaceLists ==
    {<< <<1>> >>, << <<255>> >>, << <<255, 255>> >>, << <<1>>, <<255>> >>}

\* Physical keys: of the namespaces above, of their neighbours in the
\* order, and some that no namespace owns.
RangeUniverse ==
    {<<0, 1>>, <<0, 1, 1>>, <<0, 1, 1, 0, 1, 255>>,
     <<0, 1, 1, 0, 1, 255, 0>>, <<0, 1, 1, 0, 2>>,
     <<0, 1, 255>>, <<0, 1, 255, 0>>, <<0, 1, 255, 255>>, <<0, 2>>,
     <<0, 2, 0>>, <<0, 2, 255, 255, 0>>}

RangeBounds == {None, Some(<<0>>), Some(<<255>>)}

\* The prefix of the longest all-0xFF namespace is all 0xFF itself.
AllFF == to_length_prefixed(Longest)

AllFFUniverse == {AllFF, AllFF \o <<0>>, <<255, 255>>}

ValueAt(key) == <<Len(key) % 256>>

(* The nesting runs *)

NestKeys == {<<>>, <<0>>}

\* Keys of the store that are there before the views are: of the outer
\* namespace <<1>> alone, of no namespace, of the nested pair <<1>>, <<1>>.
NestUniverse == {<<0, 1, 1>>, <<0, 2>>, <<0, 1, 1, 0, 1, 1, 0>>}

----------------------------------------------------------------------------
(* The contract using one view at a time over its store *)

Init ==
    /\ store = EmptyStore
    /\ view = None
    /\ ctor = NoCtor
    /\ pc = "ready"
    /\ last = Idle
    /\ before = EmptyStore
    /\ twin = EmptyStore
    /\ twinView = None
    /\ twinLast = Idle

TwinIdle == UNCHANGED <<twin, twinView, twinLast>>

Asked(kind, namespaces) ==
    [kind |-> kind, lens |-> Lens(namespaces),
     namespaces |-> IF \E i \in 1..Len(namespaces) :
                          Len(namespaces[i]) > MaxSegmentLen
                    THEN <<>> ELSE namespaces]

\* A constructor ran: the view exists, or the program died in the codec.
Constructed(v, kind, namespaces) ==
    /\ pc = "ready"
    /\ IF v.prefix = Panic
       THEN /\ pc' = "panicked"
            /\ view' = None
       ELSE /\ pc' = "ready"
            /\ view' = Some(v)
    /\ ctor' = Asked(kind, namespaces)
    /\ last' = Idle
    /\ before' = store
    /\ UNCHANGED store
    /\ TwinIdle

New(namespace) == Constructed(new(Base, namespace), "new", <<namespace>>)

Multilevel(namespaces) ==
    Constructed(multilevel(Base, namespaces), "multilevel", namespaces)

Get(key) ==
    /\ pc = "ready"
    /\ view # None
    /\ last' = [Idle EXCEPT !.op = "get", !.key = key,
                            !.result = get(view[1], store, key)]
    /\ before' = store
    /\ UNCHANGED <<store, view, ctor, pc>>
    /\ TwinIdle

Set(key, value) ==
    /\ pc = "ready"
    /\ view # None
    /\ Cardinality(DOMAIN set(view[1], store, key, value)) <= MaxEntries
    /\ store' = set(view[1], store, key, value)
    /\ last' = [Idle EXCEPT !.op = "set", !.key = key, !.value = value]
    /\ before' = store
    /\ UNCHANGED <<view, ctor, pc>>
    /\ TwinIdle

Remove(key) ==
    /\ pc = "ready"
    /\ view # None
    /\ store' = remove(view[1], store, key)
    /\ last' = [Idle EXCEPT !.op = "remove", !.key = key]
    /\ before' = store
    /\ UNCHANGED <<view, ctor, pc>>
    /\ TwinIdle

Range(start, end, order) ==
    /\ pc = "ready"
    /\ view # None
    /\ last' = [Idle EXCEPT
                  !.op = "range", !.start = start, !.end = end,
                  !.order = order,
                  !.result = range(view[1], store, start, end, order),
                  !.scan = scan_with_prefix(view[1].storage, store,
                                            view[1].prefix, start, end, order)]
    /\ before' = store
    /\ UNCHANGED <<store, view, ctor, pc>>
    /\ TwinIdle

\* The contract writes the store directly, outside every namespace.
RawSet(key, value) ==
    /\ pc = "ready"
    /\ Cardinality(DOMAIN Mem_set(store, key, value)) <= MaxEntries
    /\ store' = Mem_set(store, key, value)
    /\ last' = [Idle EXCEPT !.op = "raw_set", !.key = key, !.value = value]
    /\ before' = store
    /\ UNCHANGED <<view, ctor, pc>>
    /\ TwinIdle

Next ==
    \/ \E namespace \in Namespaces : New(namespace)
    \/ \E namespaces \in NamespaceLists : Multilevel(namespaces)
    \/ \E key \in Keys : Get(key)
    \/ \E key \in Keys, value \in Values : Set(key, value)
    \/ \E key \in Keys : Remove(key)
    \/ \E start \in Bounds, end \in Bounds, order \in Orders :
          Range(start, end, order)
    \/ \E key \in RawKeys, value \in Values : RawSet(key, value)

Spec == Init /\ [][Next]_vars

----------------------------------------------------------------------------
(* The codec runs: views are built from many namespace lists, the longest *)
(* and the oversized namespace among them, and read.                      *)

NextCodec ==
    \/ \E namespace \in CodecNamespaces \cup {Longest, Oversize} :
          New(namespace)
    \/ \E namespaces \in CodecLists : Multilevel(namespaces)
    \/ \E key \in {<<>>, <<0>>} : Get(key)

SpecCodec == Init /\ [][NextCodec]_vars

----------------------------------------------------------------------------
(* The range runs: a view over a store with given contents is scanned. *)

Opened(namespaces) ==
    IF Len(namespaces) = 1 THEN new(Base, namespaces[1])
    ELSE multilevel(Base, namespaces)

InitRange ==
    /\ \/ \E namespaces \in RangeNamespaceLists, D \in SUBSET RangeUniverse :
             /\ Cardinality(D) <= MaxScanned
             /\ store = [k \in D |-> ValueAt(k)]
             /\ view = Some(Opened(namespaces))
             /\ ctor = Asked(IF Len(namespaces) = 1 THEN "new"
                             ELSE "multilevel", namespaces)
       \/ \E D \in SUBSET AllFFUniverse :
             /\ store = [k \in D |-> ValueAt(k)]
             /\ view = Some(new(Base, Longest))
             /\ ctor = Asked("new", <<Longest>>)
    /\ pc = "ready"
    /\ last = Idle
    /\ before = store
    /\ twin = EmptyStore
    /\ twinView = None
    /\ twinLast = Idle

NextRange ==
    \E start \in RangeBounds, end \in RangeBounds, order \in Orders :
        Range(start, end, order)

SpecRange == InitRange /\ [][NextRange]_vars

----------------------------------------------------------------------------
(* The nesting runs: the same operations go through multilevel(S, n1, n2) *)
(* over one copy of the store and through new(new(S, n1), n2) over        *)
(* another copy.                                                          *)

InitNest ==
    /\ \E D \in SUBSET NestUniverse :
          /\ Cardinality(D) <= MaxEntries
          /\ store = [k \in D |-> ValueAt(k)]
    /\ twin = store
    /\ before = store
    /\ view = None
    /\ twinView = None
    /\ ctor = NoCtor
    /\ pc = "ready"
    /\ last = Idle
    /\ twinLast = Idle

NestOpen(n1, n2) ==
    /\ view = None
    /\ view' = Some(multilevel(Base, <<n1, n2>>))
    /\ twinView' = Some(new(Some(new(Base, n1)), n2))
    /\ ctor' = Asked("both", <<n1, n2>>)
    /\ UNCHANGED <<store, twin, pc, last, twinLast, before>>

NestGet(key) ==
    /\ view # None
    /\ last' = [Idle EXCEPT !.op = "get", !.key = key,
                            !.result = get(view[1], store, key)]
    /\ twinLast' = [Idle EXCEPT !.op = "get", !.key = key,
                                !.result = get(twinView[1], twin, key)]
    /\ before' = store
    /\ UNCHANGED <<store, twin, view, twinView, ctor, pc>>

NestSet(key, value) ==
    /\ view # None
    /\ Cardinality(DOMAIN set(view[1], store, key, value)) <= MaxEntries
    /\ store' = set(view[1], store, key, value)
    /\ twin' = set(twinView[1], twin, key, value)
    /\ last' = [Idle EXCEPT !.op = "set", !.key = key, !.value = value]
    /\ twinLast' = [Idle EXCEPT !.op = "set", !.key = key, !.value = value]
    /\ before' = store
    /\ UNCHANGED <<view, twinView, ctor, pc>>

NestRemove(key) ==
    /\ view # None
    /\ store' = remove(view[1], store, key)
    /\ twin' = remove(twinView[1], twin, key)
    /\ last' = [Idle EXCEPT !.op = "remove", !.key = key]
    /\ twinLast' = [Idle EXCEPT !.op = "remove", !.key = key]
    /\ before' = store
    /\ UNCHANGED <<view, twinView, ctor, pc>>

NestRange(start, end, order) ==
    /\ view # None
    /\ last' = [Idle EXCEPT
                  !.op = "range", !.start = start, !.end = end,
                  !.order = order,
                  !.result = range(view[1], store, start, end, order)]
    /\ twinLast' = [Idle EXCEPT
                  !.op = "range", !.start = start, !.end = end,
                  !.order = order,
                  !.result = range(twinView[1], twin, start, end, order)]
    /\ before' = store
    /\ UNCHANGED <<store, twin, view, twinView, ctor, pc>>

NextNest ==
    \/ \E n1 \in Namespaces, n2 \in Namespaces : NestOpen(n1, n2)
    \/ \E key \in NestKeys : NestGet(key)
    \/ \E key \in NestKeys, value \in Values : NestSet(key, value)
    \/ \E key \in NestKeys : NestRemove(key)
    \/ \E start \in Bounds, end \in Bounds, order \in Orders :
          NestRange(start, end, order)

SpecNest == InitNest /\ [][NextNest]_vars

----------------------------------------------------------------------------
(* The properties *)

\* The wire format of a prefix: per namespace a 2-byte big-endian length
\* and the namespace, in order.
WireSegment(namespace) ==
    <<Len(namespace) \div 256, Len(namespace) % 256>> \o namespace

RECURSIVE WireFormat(_)
WireFormat(namespaces) ==
    IF namespaces = <<>> THEN <<>>
    ELSE WireSegment(Head(namespaces)) \o WireFormat(Tail(namespaces))

LeadingPart(l1, l2) == Len(l1) <= Len(l2) /\ SubSeq(l2, 1, Len(l1)) = l1

Related(l1, l2) == LeadingPart(l1, l2) \/ LeadingPart(l2, l1)

Flip(order) == IF order = "Ascending" THEN "Descending" ELSE "Ascending"

InBounds(key, start, end) ==
    /\ (start = None \/ LexLeq(start[1], key))
    /\ (end = None \/ LexLess(key, end[1]))

\* The logical keys a view with this prefix holds in the store.
LogicalKeys(prefix, mem) ==
    {SubSeq(k, Len(prefix) + 1, Len(k)) :
        k \in {x \in DOMAIN mem : IsPrefixOf(prefix, x)}}

\* What an ascending scan over [start, end) is to return.
ExpectedAscending(prefix, mem, start, end) ==
    LET asc == SortAscending({k \in LogicalKeys(prefix, mem) :
                                  InBounds(k, start, end)})
    IN  [i \in 1..Len(asc) |-> <<asc[i], mem[prefix \o asc[i]]>>]

\* C1: the same operations through multilevel(S, <<n1, n2>>) and through
\* new(new(S, n1), n2) give the same results at every step and leave the
\* two copies of the store equal; what one form wrote the other reads.
NestingEquivalence ==
    view # None =>
        /\ twin = store
        /\ twinLast = last
        /\ last.op = "set" =>
              /\ get(twinView[1], store, last.key) = Some(last.value)
              /\ get(view[1], twin, last.key) = Some(last.value)
        /\ \A key \in NestKeys :
              get(twinView[1], store, key) = get(view[1], store, key)

NestingReadBack ==
    /\ twinLast.op = "get"
    /\ twinLast.result # None
    /\ \E k \in DOMAIN store : ~IsPrefixOf(view[1].prefix, k)

\* C2 as amended: two different namespace lists never encode to the same
\* prefix, and the prefix of one begins with the prefix of the other only
\* when the one list is a leading part of the other.
CodecInjective ==
    view # None =>
        \A other \in CodecLists :
            LET encoded == multilevel(Base, other).prefix
            IN  (encoded # Panic /\ other # ctor.namespaces) =>
                    /\ encoded # view[1].prefix
                    /\ IsPrefixOf(view[1].prefix, encoded)
                          => LeadingPart(ctor.namespaces, other)
                    /\ IsPrefixOf(encoded, view[1].prefix)
                          => LeadingPart(other, ctor.namespaces)

\* C2 as stated: no encoding is equal to, or a byte-prefix of, the
\* encoding of a different list.
CodecPrefixFree ==
    view # None =>
        \A other \in CodecLists :
            LET encoded == multilevel(Base, other).prefix
            IN  (encoded # Panic /\ other # ctor.namespaces) =>
                    /\ encoded # view[1].prefix
                    /\ ~IsPrefixOf(view[1].prefix, encoded)
                    /\ ~IsPrefixOf(encoded, view[1].prefix)

CodecTwoLevels ==
    /\ view # None
    /\ ctor.kind = "multilevel"
    /\ Len(ctor.namespaces) = 2
    /\ \E other \in CodecLists :
          other # ctor.namespaces /\ LeadingPart(other, ctor.namespaces)

\* What a set or remove through the view of `mine` may change for the view
\* of `other`: nothing a get or a range shows, and no physical key of the
\* one is a physical key of the other.
Isolated(mine, other) ==
    LET b == Opened(other)
        a == Opened(mine)
    IN  /\ \A key \in Keys : get(b, store, key) = get(b, before, key)
        /\ \A start \in Bounds, end \in Bounds, order \in Orders :
              range(b, store, start, end, order)
                  = range(b, before, start, end, order)
        /\ \A k1 \in Keys, k2 \in Keys : a.prefix \o k1 # b.prefix \o k2

\* C3 as amended: a set or remove through one view changes no get and no
\* range of the view of a namespace list that is neither a leading part
\* of its own list nor led by it.
NamespaceIsolation ==
    last.op \in {"set", "remove"} =>
        \A other \in NamespaceLists :
            ~Related(ctor.namespaces, other)
                => Isolated(ctor.namespaces, other)

\* C3 as stated: the same of every different namespace list.
NamespaceIsolationAll ==
    last.op \in {"set", "remove"} =>
        \A other \in NamespaceLists :
            other # ctor.namespaces => Isolated(ctor.namespaces, other)

IsolationWitness ==
    /\ last.op = "set"
    /\ store # before
    /\ ctor.namespaces = << <<1>> >>
    /\ get(new(Base, <<255>>), store, <<>>) # None

RangeSymmetry ==
    last.op = "range" =>
        last.result = Reverse(range(view[1], store, last.start, last.end,
                                    Flip(last.order)))

RangeDescendingWitness ==
    /\ last.op = "range"
    /\ last.order = "Descending"
    /\ Len(last.result) >= 2
    /\ last.result[1][1] # last.result[2][1]

\* C6: after set(k, v) get(k) is Some(v), the last value set; get of a key
\* the store does not hold is None.
RoundTrip ==
    /\ last.op = "set" => get(view[1], store, last.key) = Some(last.value)
    /\ last.op = "remove" => get(view[1], store, last.key) = None
    /\ last.op = "get" =>
          IF view[1].prefix \o last.key \in DOMAIN store
          THEN last.result = Some(store[view[1].prefix \o last.key])
          ELSE last.result = None

OverwriteWitness ==
    /\ last.op = "set"
    /\ get(view[1], before, last.key) # None
    /\ get(view[1], before, last.key) # Some(last.value)

\* C7: after remove(k) get(k) is None; remove of an absent key changes
\* nothing; a second remove changes nothing.
RemoveIdempotent ==
    last.op = "remove" =>
        /\ get(view[1], store, last.key) = None
        /\ get(view[1], before, last.key) = None => store = before
        /\ remove(view[1], store, last.key) = store
        /\ \A k \in DOMAIN before :
              k # view[1].prefix \o last.key => k \in DOMAIN store

RemoveAbsentWitness ==
    /\ last.op = "remove"
    /\ get(view[1], before, last.key) = None
    /\ DOMAIN store # {}

\* C8: a namespace longer than 65535 bytes kills the program in the
\* constructor; no view and no operation ever has a prefix whose length
\* header is not the length of its namespace.
OversizeIsFatal ==
    /\ (\E i \in 1..Len(ctor.lens) : ctor.lens[i] > MaxSegmentLen)
          => (pc = "panicked" /\ view = None /\ last.op = "none")
    /\ view # None => view[1].prefix = WireFormat(ctor.namespaces)
    /\ last.op # "none" =>
          \A i \in 1..Len(ctor.lens) : ctor.lens[i] <= MaxSegmentLen

OversizeWitness ==
    /\ pc = "panicked"
    /\ ctor.kind = "multilevel"
    /\ Len(ctor.lens) = 2

PhysicalKeyFrame ==
    /\ last.op \in {"set", "remove"} =>
          \A k \in (DOMAIN store) \cup (DOMAIN before) :
              k # WireFormat(ctor.namespaces) \o last.key =>
                  /\ k \in DOMAIN store
                  /\ k \in DOMAIN before
                  /\ store[k] = before[k]
    /\ last.op = "set" =>
          /\ WireFormat(ctor.namespaces) \o last.key \in DOMAIN store
          /\ store[WireFormat(ctor.namespaces) \o last.key] = last.value
    /\ last.op = "remove" =>
          WireFormat(ctor.namespaces) \o last.key \notin DOMAIN store
    /\ last.op \in {"get", "range"} => store = before
    /\ view # None => view[1].prefix = WireFormat(ctor.namespaces)

FrameWitness ==
    /\ last.op = "remove"
    /\ store # before
    /\ DOMAIN store # {}
    /\ Len(ctor.namespaces) = 2

====
